---- MODULE Spec2Model ----
(***************************************************************************)
(* Model of OpenAIService (src/services/openai.ts): a singleton that keeps *)
(* a per-chat message history, gates prediction requests on the active     *)
(* chat / user / AI setting, sends the retained messages to a completion   *)
(* boundary and broadcasts the returned text to a set of listeners.        *)
(*                                                                         *)
(* The service runs on a single-threaded event loop: every method runs to  *)
(* completion except predictMessage, which suspends at the boundary call.  *)
(* One action models one method call (up to its return or its await), and  *)
(* two more actions model the resumption of a suspended predictMessage on  *)
(* success and on failure of the boundary call.                            *)
(***************************************************************************)
EXTENDS Integers, Sequences, FiniteSets, TLC

(***************************************************************************)
(* Values of the host language that are not strings of the program.        *)
(***************************************************************************)
Null == "<null>"
Undefined == "<undefined>"
Pending == "<pending>"
Void == "<void>"
Threw == "<threw>"

(***************************************************************************)
(* Program constant: the history cap of slice(-20) and of updateHistory.   *)
(***************************************************************************)
MaxHistory == 20

(***************************************************************************)
(* Bounds of the model.                                                    *)
(***************************************************************************)
MaxLen == 21
MaxRequests == 1
MaxUpdates == 1
MaxRace == 2

(***************************************************************************)
(* Inputs: chat and user identifiers (non-empty strings) and listener     *)
(* callbacks.                                                              *)
(***************************************************************************)
ChatIds == {"c1", "c2"}
UserIds == {"alice"}
Listeners == {"f", "g"}

Usernames == <<"alice", "bob", Undefined>>
Roles == <<"user", "assistant", "system">>

\* The i-th message of a conversation: numbered content, authors in rotation,
\* with a role field that says nothing about the author.
Msg(i) ==
  [role |-> Roles[(i % 3) + 1], content |-> "m" \o ToString(i),
   username |-> Usernames[(i % 3) + 1]]

Conversation(start, n) == [i \in 1..n |-> Msg(start + i - 1)]

MsgLists == {<<>>, Conversation(1, 2), Conversation(50, MaxLen)}

UpdMsgs == { [role |-> "user", content |-> "u1", username |-> "bob"] }

\* Responses of the completion boundary: a list of choices, each with a
\* message content that may be null.
Responses ==
  { [choices |-> <<>>],
    [choices |-> <<[content |-> Null]>>],
    [choices |-> <<[content |-> "yo"], [content |-> "hello!"]>>] }

SystemTurn == [role |-> "system", content |-> "<system prompt>"]

VARIABLES
  messageHistory,       \* Map<string, Message[]>: function on the stored keys
  currentChatId,        \* string | null
  currentUserId,        \* string | null
  predictionListeners,  \* Set<PredictionListener>
  calls,                \* predictMessage invocations that reached the boundary
  boundaryCalls,        \* number of requests sent to the boundary
  completions,          \* number of boundary calls whose outcome was processed
  updates,              \* number of messages updateHistory appended (bounded)
  lastOp,               \* the call or resumption that ran last, with its result
  notified,             \* listener -> invocations made by the last step
  written,              \* per invocation: the history it stored, when it started
  writer                \* per chat: the invocation whose history is still stored

vars ==
  <<messageHistory, currentChatId, currentUserId, predictionListeners,
    calls, boundaryCalls, completions, updates, lastOp, notified,
    written, writer>>

\* The state of the service itself.
service ==
  <<messageHistory, currentChatId, currentUserId, predictionListeners>>

(***************************************************************************)
(* Helpers of the host language.                                           *)
(***************************************************************************)
\* JavaScript truthiness of a string | null value.
Truthy(x) == x # Null /\ x # Undefined /\ x # ""

\* Array.prototype.slice(-n)
SliceLast(s, n) ==
  IF Len(s) <= n THEN s ELSE SubSeq(s, Len(s) - n + 1, Len(s))

EmptyMap == [c \in {} |-> <<>>]
MapSet(m, k, v) == [x \in (DOMAIN m) \cup {k} |-> IF x = k THEN v ELSE m[x]]
MapDelete(m, k) == [x \in (DOMAIN m) \ {k} |-> m[x]]
MapGetOr(m, k, d) == IF k \in DOMAIN m THEN m[k] ELSE d

NoOneNotified == [l \in Listeners |-> <<>>]

Invocation(chatId, prediction) == [chatId |-> chatId, prediction |-> prediction]

\* Lines 42-44: forEach over the listener set, one invocation each.
NotifyPredictionListeners(chatId, prediction) ==
  [l \in Listeners |->
     IF l \in predictionListeners THEN <<Invocation(chatId, prediction)>>
     ELSE <<>>]

NoResp == [choices |-> <<>>]

\* What a step did: the method, its arguments, what it returned, whether it
\* sent a request to the boundary and with which turns; for
\* addPredictionListener and clearHistory, whether the set or the map held
\* the argument before the call.
Op(name, arg, ret) ==
  [op |-> name, arg |-> arg, ret |-> ret, empty |-> FALSE, ai |-> TRUE,
   issued |-> FALSE, req |-> 0, resp |-> NoResp, messages |-> <<>>,
   request |-> <<>>, known |-> FALSE]

Init ==
  /\ messageHistory = EmptyMap
  /\ currentChatId = Null
  /\ currentUserId = Null
  /\ predictionListeners = {}
  /\ calls = <<>>
  /\ boundaryCalls = 0
  /\ completions = 0
  /\ updates = 0
  /\ lastOp = Op("init", Null, Void)
  /\ notified = NoOneNotified
  /\ written = <<>>
  /\ writer = [c \in ChatIds |-> 0]

(***************************************************************************)
(* Listeners and the active context.                                       *)
(***************************************************************************)
\* Mutant: adding a listener that is registered takes it out.
ListenersAfterAdd_toggle(l) ==
  IF l \in predictionListeners THEN predictionListeners \ {l}
  ELSE predictionListeners \cup {l}

\* Line 35: Set.add
ListenersAfterAdd(l) == predictionListeners \cup {l}

AddPredictionListener(l) ==
  /\ predictionListeners' = ListenersAfterAdd(l)
  /\ lastOp' = [Op("addPredictionListener", l, Void)
                  EXCEPT !.known = (l \in predictionListeners)]
  /\ notified' = NoOneNotified
  /\ UNCHANGED <<messageHistory, currentChatId, currentUserId,
                 calls, boundaryCalls, completions, updates>>

\* Mutant: removal leaves the listener registered.
ListenersAfterRemove_keep(l) == predictionListeners

\* Line 39: Set.delete
ListenersAfterRemove(l) == predictionListeners \ {l}

RemovePredictionListener(l) ==
  /\ predictionListeners' = ListenersAfterRemove(l)
  /\ lastOp' = Op("removePredictionListener", l, Void)
  /\ notified' = NoOneNotified
  /\ UNCHANGED <<messageHistory, currentChatId, currentUserId,
                 calls, boundaryCalls, completions, updates>>

SetCurrentUser(userId) ==
  /\ currentUserId' = userId
  /\ lastOp' = Op("setCurrentUser", userId, Void)
  /\ notified' = NoOneNotified
  /\ UNCHANGED <<messageHistory, currentChatId, predictionListeners,
                 calls, boundaryCalls, completions, updates>>

\* Mutant: the map is never cleared.
HistoryAfterSetCurrentChat_keep(chatId) == messageHistory

\* Mutant: only the history of the chat that was active is removed.
HistoryAfterSetCurrentChat_onlyPrevious(chatId) ==
  IF ~Truthy(chatId) THEN MapDelete(messageHistory, currentChatId)
  ELSE messageHistory

\* Lines 52-54: the map is cleared when the new value is falsy.
HistoryAfterSetCurrentChat(chatId) ==
  IF ~Truthy(chatId) THEN EmptyMap ELSE messageHistory

SetCurrentChat(chatId) ==
  /\ currentChatId' = chatId
  /\ messageHistory' = HistoryAfterSetCurrentChat(chatId)
  /\ lastOp' = Op("setCurrentChat", chatId, Void)
  /\ notified' = NoOneNotified
  /\ UNCHANGED <<currentUserId, predictionListeners, calls,
                 boundaryCalls, completions, updates>>

(***************************************************************************)
(* predictMessage, up to its return or its await.  isAiEnabled is the      *)
(* value the settings store returns when the method reads it.              *)
(***************************************************************************)
\* Mutant: the AI setting is not consulted.
Gated_noAiCheck(chatId, messages, isAiEnabled) ==
  \/ chatId # currentChatId
  \/ ~Truthy(currentUserId)
  \/ Len(messages) = 0

\* Lines 59-75: the conditions under which predictMessage returns '' at once.
Gated(chatId, messages, isAiEnabled) ==
  \/ chatId # currentChatId
  \/ ~Truthy(currentUserId)
  \/ Len(messages) = 0
  \/ ~isAiEnabled

\* Mutant: the first 20 messages are kept, slice(0, 20).
RecentMessages_first(messages) ==
  IF Len(messages) <= MaxHistory THEN messages
  ELSE SubSeq(messages, 1, MaxHistory)

\* Line 79: messages.slice(-20)
RecentMessages(messages) == SliceLast(messages, MaxHistory)

\* Mutant: the role field of the message is passed on.
FormatMessages_byRole(recentMessages) ==
  [i \in 1..Len(recentMessages) |->
     [role |-> recentMessages[i].role,
      content |-> recentMessages[i].content]]

\* Lines 85-92: one turn per retained message, username dropped.
FormatMessages(recentMessages) ==
  [i \in 1..Len(recentMessages) |->
     [role |-> IF recentMessages[i].username = currentUserId
               THEN "assistant" ELSE "user",
      content |-> recentMessages[i].content]]

\* Lines 116-122: the turns of the request.
RequestTurns(formattedMessages) == <<SystemTurn>> \o formattedMessages

\* Mutant: a history that is already stored is not replaced.
HistoryAfterPredict_keepExisting(chatId, recentMessages) ==
  IF chatId \in DOMAIN messageHistory THEN messageHistory
  ELSE MapSet(messageHistory, chatId, recentMessages)

\* Line 80: this.messageHistory.set(chatId, recentMessages)
HistoryAfterPredict(chatId, recentMessages) ==
  MapSet(messageHistory, chatId, recentMessages)

Called(name, chatId, messages, isAiEnabled, ret) ==
  [Op(name, chatId, ret) EXCEPT !.empty = (Len(messages) = 0),
                                !.ai = isAiEnabled]

PredictMessageBody(name, chatId, messages, isAiEnabled, limit) ==
  IF Gated(chatId, messages, isAiEnabled)
  THEN /\ lastOp' = Called(name, chatId, messages, isAiEnabled, "")
       /\ notified' = NoOneNotified
       /\ UNCHANGED <<messageHistory, currentChatId, currentUserId,
                      predictionListeners, calls, boundaryCalls,
                      completions, updates>>
  ELSE LET recentMessages == RecentMessages(messages)
           formattedMessages == FormatMessages(recentMessages)
       IN /\ messageHistory' = HistoryAfterPredict(chatId, recentMessages)
          /\ notified' = NoOneNotified
          /\ IF Len(formattedMessages) = 0
             THEN /\ lastOp' = Called(name, chatId, messages, isAiEnabled, "")
                  /\ UNCHANGED <<calls, boundaryCalls>>
             ELSE /\ boundaryCalls < limit
                  /\ calls' = Append(calls,
                       [chatId |-> chatId, outcome |-> "pending",
                        finishedAt |-> 0])
                  /\ boundaryCalls' = boundaryCalls + 1
                  /\ lastOp' =
                       [Called(name, chatId, messages, isAiEnabled, Pending)
                          EXCEPT !.issued = TRUE, !.req = Len(calls) + 1,
                                 !.messages = messages,
                                 !.request = RequestTurns(formattedMessages)]
          /\ UNCHANGED <<currentChatId, currentUserId, predictionListeners,
                         completions, updates>>

PredictMessage(chatId, messages, isAiEnabled, limit) ==
  PredictMessageBody("predictMessage", chatId, messages, isAiEnabled, limit)

\* Mutant: the test of the setting is inverted.
RegeneratePrediction_inverted(chatId, messages, isAiEnabled, limit) ==
  IF isAiEnabled
  THEN /\ lastOp' = Called("regeneratePrediction", chatId, messages,
                           isAiEnabled, "")
       /\ notified' = NoOneNotified
       /\ UNCHANGED <<messageHistory, currentChatId, currentUserId,
                      predictionListeners, calls, boundaryCalls,
                      completions, updates>>
  ELSE PredictMessageBody("regeneratePrediction", chatId, messages,
                          isAiEnabled, limit)

\* Lines 169-178: the setting is checked, then predictMessage is called.
RegeneratePrediction(chatId, messages, isAiEnabled, limit) ==
  IF ~isAiEnabled
  THEN /\ lastOp' = Called("regeneratePrediction", chatId, messages,
                           isAiEnabled, "")
       /\ notified' = NoOneNotified
       /\ UNCHANGED <<messageHistory, currentChatId, currentUserId,
                      predictionListeners, calls, boundaryCalls,
                      completions, updates>>
  ELSE PredictMessageBody("regeneratePrediction", chatId, messages,
                          isAiEnabled, limit)

(***************************************************************************)
(* Resumption of a suspended predictMessage.                               *)
(***************************************************************************)
\* Mutant: the last choice is taken instead of the first.
ExtractPrediction_lastChoice(completion) ==
  IF Len(completion.choices) = 0 THEN ""
  ELSE IF Truthy(completion.choices[Len(completion.choices)].content)
       THEN completion.choices[Len(completion.choices)].content ELSE ""

\* Line 129: completion.choices[0]?.message?.content || ''
ExtractPrediction(completion) ==
  IF Len(completion.choices) = 0 THEN ""
  ELSE IF Truthy(completion.choices[1].content)
       THEN completion.choices[1].content ELSE ""

\* Mutant: the response is dropped when the chat is no longer the active one.
NotifyOnResolve_recheck(chatId, prediction) ==
  IF chatId = currentChatId
  THEN NotifyPredictionListeners(chatId, prediction)
  ELSE NoOneNotified

\* Line 133: the listeners are notified under the chat id of the call.
NotifyOnResolve(chatId, prediction) ==
  NotifyPredictionListeners(chatId, prediction)

\* Mutant: the history the invocation stored is taken back when it resumes.
HistoryAfterResume_rollback(chatId) == MapDelete(messageHistory, chatId)

\* Lines 129-139: no statement after the await writes the map.
HistoryAfterResume(chatId) == messageHistory

Finished(i) ==
  [calls EXCEPT ![i].outcome = "finished", ![i].finishedAt = completions + 1]

\* Lines 129-135: the boundary call resolved.
BoundaryResolves(i, completion) ==
  /\ i \in 1..Len(calls)
  /\ calls[i].outcome = "pending"
  /\ LET prediction == ExtractPrediction(completion)
     IN /\ notified' = NotifyOnResolve(calls[i].chatId, prediction)
        /\ lastOp' = [Op("resolve", calls[i].chatId, prediction)
                        EXCEPT !.req = i, !.resp = completion]
  /\ calls' = Finished(i)
  /\ completions' = completions + 1
  /\ messageHistory' = HistoryAfterResume(calls[i].chatId)
  /\ UNCHANGED <<currentChatId, currentUserId, predictionListeners,
                 boundaryCalls, updates>>

\* Mutant: the error is not caught and reaches the caller.
CatchResult_rethrow == Threw

\* Lines 136-139: the error is caught and logged, '' is returned.
CatchResult == ""

BoundaryRejects(i) ==
  /\ i \in 1..Len(calls)
  /\ calls[i].outcome = "pending"
  /\ notified' = NoOneNotified
  /\ lastOp' = [Op("reject", calls[i].chatId, CatchResult) EXCEPT !.req = i]
  /\ calls' = Finished(i)
  /\ completions' = completions + 1
  /\ messageHistory' = HistoryAfterResume(calls[i].chatId)
  /\ UNCHANGED <<currentChatId, currentUserId, predictionListeners,
                 boundaryCalls, updates>>

(***************************************************************************)
(* History maintenance.                                                    *)
(***************************************************************************)
\* Mutant: the active-chat test is missing.
UpdateIgnored_never(chatId) == FALSE

\* Mutant: calls are ignored only while no chat is active.
UpdateIgnored_onlyWithoutChat(chatId) == ~Truthy(currentChatId)

\* Lines 144-146: calls for a chat that is not the active one are ignored.
UpdateIgnored(chatId) == chatId # currentChatId

\* Mutant: the oldest message is never evicted.
PushCapped_noShift(history, newMessage) == Append(history, newMessage)

\* Mutant: the newest message is dropped instead of the oldest (pop for shift).
PushCapped_pop(history, newMessage) ==
  LET pushed == Append(history, newMessage)
  IN IF Len(pushed) > MaxHistory THEN SubSeq(pushed, 1, MaxHistory)
     ELSE pushed

\* Lines 148-152: get-or-empty, push, shift when longer than 20.
PushCapped(history, newMessage) ==
  LET pushed == Append(history, newMessage)
  IN IF Len(pushed) > MaxHistory THEN Tail(pushed) ELSE pushed

UpdateHistory(chatId, newMessage) ==
  /\ IF UpdateIgnored(chatId)
     THEN UNCHANGED <<messageHistory, updates>>
     ELSE /\ updates < MaxUpdates
          /\ updates' = updates + 1
          /\ messageHistory' =
               MapSet(messageHistory, chatId,
                      PushCapped(MapGetOr(messageHistory, chatId, <<>>),
                                 newMessage))
  /\ lastOp' = [Op("updateHistory", chatId, Void)
                  EXCEPT !.messages = <<newMessage>>]
  /\ notified' = NoOneNotified
  /\ UNCHANGED <<currentChatId, currentUserId, predictionListeners,
                 calls, boundaryCalls, completions>>

\* Mutant: only the history of the active chat can be removed.
HistoryAfterClear_onlyActive(chatId) ==
  IF chatId = currentChatId THEN MapDelete(messageHistory, chatId)
  ELSE messageHistory

\* Line 157: Map.delete
HistoryAfterClear(chatId) == MapDelete(messageHistory, chatId)

ClearHistory(chatId) ==
  /\ messageHistory' = HistoryAfterClear(chatId)
  /\ lastOp' = [Op("clearHistory", chatId, Void)
                  EXCEPT !.known = (chatId \in DOMAIN messageHistory)]
  /\ notified' = NoOneNotified
  /\ UNCHANGED <<currentChatId, currentUserId, predictionListeners,
                 calls, boundaryCalls, completions, updates>>

\* Mutant: the method does nothing even with an active chat.
HasCurrentChat_never == FALSE

\* Line 162: the truthiness test of the active chat.
HasCurrentChat == Truthy(currentChatId)

ClearPrediction ==
  /\ IF HasCurrentChat
     THEN /\ messageHistory' = MapDelete(messageHistory, currentChatId)
          /\ notified' = NotifyPredictionListeners(currentChatId, "")
     ELSE /\ UNCHANGED messageHistory
          /\ notified' = NoOneNotified
  /\ lastOp' = Op("clearPrediction", currentChatId, Void)
  /\ UNCHANGED <<currentChatId, currentUserId, predictionListeners,
                 calls, boundaryCalls, completions, updates>>

(***************************************************************************)
(* The main specification: every method, one request at a time.  The race  *)
(* bookkeeping (written, writer) is not kept here.                         *)
(***************************************************************************)
NoRaceLog == UNCHANGED <<written, writer>>

Next ==
  \/ \E l \in Listeners : AddPredictionListener(l) /\ NoRaceLog
  \/ \E l \in Listeners : RemovePredictionListener(l) /\ NoRaceLog
  \/ \E u \in UserIds : SetCurrentUser(u) /\ NoRaceLog
  \/ \E c \in ChatIds \cup {Null} : SetCurrentChat(c) /\ NoRaceLog
  \/ \E c \in ChatIds, m \in MsgLists, ai \in BOOLEAN :
       PredictMessage(c, m, ai, MaxRequests) /\ NoRaceLog
  \/ \E c \in ChatIds, m \in MsgLists, ai \in BOOLEAN :
       RegeneratePrediction(c, m, ai, MaxRequests) /\ NoRaceLog
  \/ \E i \in 1..MaxRequests, r \in Responses :
       BoundaryResolves(i, r) /\ NoRaceLog
  \/ \E i \in 1..MaxRequests : BoundaryRejects(i) /\ NoRaceLog
  \/ \E c \in ChatIds, m \in UpdMsgs : UpdateHistory(c, m) /\ NoRaceLog
  \/ \E c \in ChatIds : ClearHistory(c) /\ NoRaceLog
  \/ ClearPrediction /\ NoRaceLog

Spec == Init /\ [][Next]_vars

(***************************************************************************)
(* The race specification: several predictMessage invocations in flight at *)
(* once, with the bookkeeping of who stored what.  No listener is          *)
(* registered here, the AI setting is on and every response carries the    *)
(* same text; histories are replaced by predictMessage and removed by      *)
(* clearHistory and setCurrentChat(null).  An invocation that reaches the  *)
(* boundary is logged                                                      *)
(* with the history it stored and the number of completions seen so far;   *)
(* writer[c] is the invocation whose stored history for c has not been     *)
(* replaced, changed or removed since, 0 when there is none.               *)
(***************************************************************************)
RaceResponse == [choices |-> <<[content |-> "yo"]>>]

RaceLog ==
  LET started == Len(calls') > Len(calls)
  IN /\ written' =
          IF started
          THEN Append(written,
                      [stored |-> SliceLast(lastOp'.messages, MaxHistory),
                       startedAt |-> completions])
          ELSE written
     /\ writer' =
          [c \in ChatIds |->
             IF started /\ calls'[Len(calls')].chatId = c THEN Len(calls')
             ELSE IF /\ c \in DOMAIN messageHistory
                     /\ c \in DOMAIN messageHistory'
                     /\ messageHistory'[c] = messageHistory[c]
                  THEN writer[c]
                  ELSE 0]

NextRace ==
  \/ \E u \in UserIds : SetCurrentUser(u) /\ RaceLog
  \/ \E c \in ChatIds \cup {Null} : SetCurrentChat(c) /\ RaceLog
  \/ \E c \in ChatIds, m \in MsgLists :
       PredictMessage(c, m, TRUE, MaxRace) /\ RaceLog
  \/ \E i \in 1..MaxRace : BoundaryResolves(i, RaceResponse) /\ RaceLog
  \/ \E i \in 1..MaxRace : BoundaryRejects(i) /\ RaceLog
  \/ \E c \in ChatIds : ClearHistory(c) /\ RaceLog

SpecRace == Init /\ [][NextRace]_vars

(***************************************************************************)
(* Properties.                                                             *)
(***************************************************************************)
\* The text of the first choice of a response, '' when there is none.
FirstChoiceText(resp) ==
  IF resp.choices = <<>> THEN ""
  ELSE IF resp.choices[1].content = Null THEN "" ELSE resp.choices[1].content

\* The invocations a notification with (chatId, text) owes to each listener
\* when `registered` is the listener set: one for each member, none otherwise.
OncePerListener(registered, chatId, text) ==
  [l \in Listeners |->
     IF l \in registered THEN <<Invocation(chatId, text)>> ELSE <<>>]

\* C1 as stated: every step that changes the active chat, to another
\* identifier or to null, leaves the history map empty.
CounterC1 ==
  [][currentChatId' # currentChatId => messageHistory' = EmptyMap]_vars

\* C1 as amended: a step that changes the active chat to null leaves the
\* history map empty; a step that changes it to a chat identifier leaves the
\* stored history of every chat as it was.
TheoremC1 ==
  [][currentChatId' # currentChatId =>
       IF currentChatId' = Null
       THEN messageHistory' = EmptyMap
       ELSE messageHistory' = messageHistory]_vars

\* setCurrentChat has just selected a chat while another chat has history.
WitnessC1 ==
  /\ lastOp.op = "setCurrentChat"
  /\ currentChatId # Null
  /\ \E c \in DOMAIN messageHistory : c # currentChatId

\* C2 as stated: in every reachable state the only chat with stored history
\* is the active chat.
CounterC2 == \A c \in DOMAIN messageHistory : c = currentChatId

\* C2 as amended: history is stored or changed only for the chat that is
\* active when the step runs; a chat that stops being active through a switch
\* to another identifier keeps the history it had.
TheoremC2 ==
  [][\A c \in DOMAIN messageHistory' :
       (c \notin DOMAIN messageHistory \/ messageHistory'[c] # messageHistory[c])
         => (c = currentChatId /\ c = currentChatId')]_vars

\* The active chat and a chat that is no longer active both have history.
WitnessC2 ==
  /\ currentChatId \in DOMAIN messageHistory
  /\ \E c \in DOMAIN messageHistory : c # currentChatId

\* C3: in every reachable state every stored history has at most 20 messages.
TheoremC3 ==
  \A c \in DOMAIN messageHistory : Len(messageHistory[c]) <= MaxHistory

\* updateHistory appended to a full history: 20 messages, the newest last.
WitnessC3 ==
  /\ lastOp.op = "updateHistory"
  /\ lastOp.arg \in DOMAIN messageHistory
  /\ Len(messageHistory[lastOp.arg]) = MaxHistory
  /\ messageHistory[lastOp.arg][MaxHistory] \in UpdMsgs

\* C4: a predictMessage call whose chat is not the active chat, or made with
\* no active user, an empty message list or the AI setting off, returns '',
\* sends nothing to the boundary, invokes no listener and changes neither the
\* history nor the active context.
TheoremC4 ==
  [][(/\ lastOp'.op = "predictMessage"
      /\ \/ lastOp'.arg # currentChatId
         \/ currentUserId = Null
         \/ lastOp'.empty
         \/ ~lastOp'.ai)
     => (/\ lastOp'.ret = ""
         /\ ~lastOp'.issued
         /\ boundaryCalls' = boundaryCalls
         /\ calls' = calls
         /\ notified' = NoOneNotified
         /\ UNCHANGED service)]_vars

\* A call for the active chat, with a user and messages, stopped by the
\* setting alone while a listener is registered.
WitnessC4 ==
  /\ lastOp.op = "predictMessage"
  /\ lastOp.arg = currentChatId
  /\ currentUserId # Null
  /\ ~lastOp.empty
  /\ ~lastOp.ai
  /\ lastOp.ret = ""
  /\ predictionListeners # {}

\* C5: a response that arrives for a chat that is no longer the active chat
\* is still returned and still broadcast to every registered listener under
\* the chat id of the call.
TheoremC5 ==
  (lastOp.op = "resolve" /\ lastOp.arg # currentChatId)
    => /\ lastOp.ret = FirstChoiceText(lastOp.resp)
       /\ \A l \in predictionListeners :
            notified[l] = <<Invocation(lastOp.arg, lastOp.ret)>>

\* A listener received a non-empty prediction for a chat that is not active.
WitnessC5 ==
  /\ lastOp.op = "resolve"
  /\ lastOp.arg # currentChatId
  /\ lastOp.ret # ""
  /\ \E l \in Listeners :
       notified[l] = <<Invocation(lastOp.arg, lastOp.ret)>>

\* Invocations i and j (j called after i) for the same chat were in flight
\* at the same time and both have finished.
Raced(i, j) ==
  /\ i < j
  /\ calls[i].chatId = calls[j].chatId
  /\ calls[i].outcome = "finished"
  /\ calls[j].outcome = "finished"
  /\ calls[i].finishedAt > written[j].startedAt

CompletedLast(i, j) ==
  IF calls[i].finishedAt > calls[j].finishedAt THEN i ELSE j

\* The stored history of the chat of i and j is still one that a
\* predictMessage invocation stored (no later operation touched it).
StillFromPredict(i, j) == writer[calls[j].chatId] \in {i, j}

\* C6 as stated: once two overlapping invocations for the same chat have
\* finished, the stored history is the one written by the invocation whose
\* boundary call completed last.
CounterC6 ==
  \A i, j \in 1..Len(calls) :
    (Raced(i, j) /\ StillFromPredict(i, j))
      => /\ calls[j].chatId \in DOMAIN messageHistory
         /\ messageHistory[calls[j].chatId] = written[CompletedLast(i, j)].stored

\* A predictMessage call that passes gating while a request for the same
\* chat is in flight sends its own request.
NotDeduplicated ==
  (/\ lastOp'.op = "predictMessage"
   /\ lastOp'.arg = currentChatId
   /\ currentUserId # Null
   /\ ~lastOp'.empty
   /\ lastOp'.ai
   /\ \E k \in 1..Len(calls) :
        calls[k].chatId = lastOp'.arg /\ calls[k].outcome = "pending")
  => (/\ lastOp'.issued
      /\ boundaryCalls' = boundaryCalls + 1
      /\ \A k \in 1..Len(calls) : calls'[k] = calls[k])

\* C6 as amended: neither invocation is deduplicated or blocked by the
\* other, and once both have finished the stored history is the one written
\* by the invocation that was called last, whichever boundary call completed
\* last (as long as no later operation replaced, changed or removed it).
TheoremC6 ==
  /\ [][NotDeduplicated]_vars
  /\ [](\A i, j \in 1..Len(calls) :
          (Raced(i, j) /\ StillFromPredict(i, j))
            => /\ calls[j].chatId \in DOMAIN messageHistory
               /\ messageHistory[calls[j].chatId] = written[j].stored)

\* Two overlapping invocations for one chat stored different histories, the
\* one called first completed last, and the history of the other is stored.
WitnessC6 ==
  \E i, j \in 1..Len(calls) :
    /\ Raced(i, j)
    /\ StillFromPredict(i, j)
    /\ CompletedLast(i, j) = i
    /\ written[i].stored # written[j].stored
    /\ messageHistory[calls[j].chatId] = written[j].stored

\* C7: when the boundary call fails the invocation returns '' (nothing is
\* thrown to the caller), no further boundary call is made and no listener
\* is invoked.
TheoremC7 ==
  [][lastOp'.op = "reject"
     => (/\ lastOp'.ret = ""
         /\ ~lastOp'.issued
         /\ boundaryCalls' = boundaryCalls
         /\ Len(calls') = Len(calls)
         /\ \A i \in 1..Len(calls) :
              calls[i].outcome # "pending" => calls'[i] = calls[i]
         /\ notified' = NoOneNotified)]_vars

\* A call for the active chat failed while listeners were registered.
WitnessC7 ==
  /\ lastOp.op = "reject"
  /\ lastOp.arg = currentChatId
  /\ predictionListeners = Listeners

\* C8: when the boundary call succeeds the invocation returns the text of
\* the first choice ('' when there is none or it has no content) and every
\* listener registered at that time is invoked exactly once with the chat id
\* of the call and that text; nobody else is invoked.
TheoremC8 ==
  lastOp.op = "resolve"
    => /\ lastOp.ret = FirstChoiceText(lastOp.resp)
       /\ notified = OncePerListener(predictionListeners, lastOp.arg, lastOp.ret)

\* A response whose first choice has no content was broadcast as '' to both
\* listeners.
WitnessC8 ==
  /\ lastOp.op = "resolve"
  /\ lastOp.resp.choices # <<>>
  /\ lastOp.ret = ""
  /\ predictionListeners = Listeners
  /\ \A l \in Listeners : Len(notified[l]) = 1

\* C9: clearPrediction with an active chat A removes A's history and invokes
\* every registered listener exactly once with (A, ''); with no active chat
\* it changes nothing and invokes nobody.
TheoremC9 ==
  [][lastOp'.op = "clearPrediction"
     => IF currentChatId # Null
        THEN /\ currentChatId \notin DOMAIN messageHistory'
             /\ notified' = OncePerListener(predictionListeners, currentChatId, "")
             /\ UNCHANGED <<currentChatId, predictionListeners>>
        ELSE /\ UNCHANGED <<service, calls, boundaryCalls>>
             /\ notified' = NoOneNotified]_vars

\* clearPrediction ran with an active chat and both listeners registered,
\* and another chat still has its history.
WitnessC9 ==
  /\ lastOp.op = "clearPrediction"
  /\ currentChatId # Null
  /\ currentChatId \notin DOMAIN messageHistory
  /\ DOMAIN messageHistory # {}
  /\ \A l \in Listeners : notified[l] = <<Invocation(currentChatId, "")>>

\* C10: removePredictionListener(fn) leaves fn unregistered, and a listener
\* that is not registered stays unregistered and is invoked by no step (the
\* resumption of a request in flight and clearPrediction included) until
\* addPredictionListener(fn) runs.
TheoremC10 ==
  [][/\ lastOp'.op = "removePredictionListener"
          => lastOp'.arg \notin predictionListeners'
     /\ \A l \in Listeners :
          (l \notin predictionListeners
             /\ ~(lastOp'.op = "addPredictionListener" /\ lastOp'.arg = l))
          => (l \notin predictionListeners' /\ notified'[l] = <<>>)]_vars

\* A response was broadcast to one listener while the other is unregistered.
WitnessC10 ==
  /\ lastOp.op = "resolve"
  /\ \E l \in Listeners : l \notin predictionListeners /\ notified[l] = <<>>
  /\ \E l \in Listeners : notified[l] # <<>>


\* C11: updateHistory for a chat that is not the active chat, or made while
\* no chat is active, changes no history, neither the active chat nor the
\* active user nor the listener set, and invokes no listener.
TheoremC11 ==
  [][(lastOp'.op = "updateHistory" /\ lastOp'.arg # currentChatId)
     => (/\ messageHistory' = messageHistory
         /\ currentChatId' = currentChatId
         /\ currentUserId' = currentUserId
         /\ predictionListeners' = predictionListeners
         /\ \A l \in Listeners : notified'[l] = <<>>)]_vars

\* An ignored updateHistory for a chat other than the active one, with a
\* history stored and a listener registered.
WitnessC11 ==
  /\ lastOp.op = "updateHistory"
  /\ currentChatId \in ChatIds
  /\ lastOp.arg # currentChatId
  /\ currentChatId \in DOMAIN messageHistory
  /\ lastOp.arg \notin DOMAIN messageHistory
  /\ predictionListeners # {}
  /\ updates = 0

\* The history stored for a chat, the empty sequence when there is none.
StoredOrEmpty(chatId) ==
  IF chatId \in DOMAIN messageHistory THEN messageHistory[chatId] ELSE <<>>

\* C12: updateHistory for the active chat puts the message at the end of that
\* chat's history; when 20 messages were stored the result is the previous
\* messages 2..20 followed by the new one; the histories of the other chats
\* are as they were.
TheoremC12 ==
  [][(lastOp'.op = "updateHistory" /\ lastOp'.arg = currentChatId)
     => LET chatId == lastOp'.arg
            msg == lastOp'.messages[1]
            before == StoredOrEmpty(chatId)
        IN /\ chatId \in DOMAIN messageHistory'
           /\ messageHistory'[chatId] =
                IF Len(before) = 20
                THEN [k \in 1..20 |-> IF k = 20 THEN msg ELSE before[k + 1]]
                ELSE [k \in 1..(Len(before) + 1) |->
                        IF k = Len(before) + 1 THEN msg ELSE before[k]]
           /\ \A c \in ChatIds \ {chatId} :
                /\ (c \in DOMAIN messageHistory') = (c \in DOMAIN messageHistory)
                /\ c \in DOMAIN messageHistory
                     => messageHistory'[c] = messageHistory[c]]_vars

\* updateHistory pushed onto a full history of the active chat: of the
\* 21-message conversation the first message went when predictMessage stored
\* it and the second at the push, and the new message is the last one.
WitnessC12 ==
  /\ lastOp.op = "updateHistory"
  /\ lastOp.arg = currentChatId
  /\ currentChatId \in DOMAIN messageHistory
  /\ Len(messageHistory[currentChatId]) = MaxHistory
  /\ messageHistory[currentChatId][MaxHistory] = lastOp.messages[1]
  /\ messageHistory[currentChatId][1] = Msg(52)
  /\ messageHistory[currentChatId][MaxHistory - 1] = Msg(70)

\* C13: a predictMessage call for the active chat, with an active user, a
\* non-empty message list and the AI setting on, leaves as the history of its
\* chat exactly the last 20 of its messages in their order, all of them when
\* there are fewer, whatever was stored before; the history is there when the
\* request is in flight.
TheoremC13 ==
  [][(/\ lastOp'.op = "predictMessage"
      /\ lastOp'.arg = currentChatId
      /\ currentUserId # Null
      /\ ~lastOp'.empty
      /\ lastOp'.ai)
     => LET messages == lastOp'.messages
            n == Len(messages)
            kept == IF n < 20 THEN n ELSE 20
        IN /\ n > 0
           /\ lastOp'.arg \in DOMAIN messageHistory'
           /\ messageHistory'[lastOp'.arg] =
                [k \in 1..kept |-> messages[n - kept + k]]
           /\ lastOp'.issued
           /\ calls'[lastOp'.req].outcome = "pending"]_vars

\* predictMessage was called with more than 20 messages and its request is in
\* flight: the history holds the 20 newest, the oldest message is not stored.
WitnessC13 ==
  /\ lastOp.op = "predictMessage"
  /\ lastOp.issued
  /\ Len(lastOp.messages) > MaxHistory
  /\ calls[lastOp.req].outcome = "pending"
  /\ Len(messageHistory[lastOp.arg]) = MaxHistory
  /\ messageHistory[lastOp.arg][MaxHistory] = lastOp.messages[Len(lastOp.messages)]
  /\ \A k \in 1..MaxHistory : messageHistory[lastOp.arg][k] # lastOp.messages[1]

\* The step is the one predictMessage(chatId, messages) takes from the same
\* state for some message list, reported under the name given: the same
\* return value, request, stored history and notifications.
StepOfPredictMessage(name, chatId, isAiEnabled) ==
  \E messages \in MsgLists :
    PredictMessageBody(name, chatId, messages, isAiEnabled, boundaryCalls + 1)

\* C14: with the AI setting off regeneratePrediction returns '', sends nothing
\* to the boundary and changes nothing, whatever is stored; with the setting
\* on its step is the step of predictMessage with the same arguments from the
\* same state.
TheoremC14 ==
  [][lastOp'.op = "regeneratePrediction"
     => IF ~lastOp'.ai
        THEN /\ lastOp'.ret = ""
             /\ ~lastOp'.issued
             /\ boundaryCalls' = boundaryCalls
             /\ calls' = calls
             /\ notified' = NoOneNotified
             /\ UNCHANGED service
        ELSE StepOfPredictMessage("regeneratePrediction", lastOp'.arg,
                                  TRUE)]_vars

\* regeneratePrediction returned '' because the setting is off, in a state in
\* which nothing else stands in the way: the chat is the active one, a user is
\* set, the list is not empty; a history is stored and nothing was requested.
WitnessC14 ==
  /\ lastOp.op = "regeneratePrediction"
  /\ ~lastOp.ai
  /\ lastOp.ret = ""
  /\ lastOp.arg = currentChatId
  /\ currentUserId # Null
  /\ ~lastOp.empty
  /\ lastOp.arg \in DOMAIN messageHistory
  /\ boundaryCalls = 0

TheoremC16 ==
  [][/\ lastOp'.op = "addPredictionListener"
        => /\ predictionListeners' = predictionListeners \cup {lastOp'.arg}
           /\ lastOp'.arg \in predictionListeners
                => /\ UNCHANGED service
                   /\ notified' = NoOneNotified
     /\ lastOp'.op = "removePredictionListener"
        => predictionListeners' = predictionListeners \ {lastOp'.arg}
     /\ (\E l \in Listeners : notified'[l] # <<>>)
        => \A l \in Listeners :
             Len(notified'[l]) = IF l \in predictionListeners THEN 1 ELSE 0
    ]_vars

\* addPredictionListener was called for a listener that was registered
\* already, next to another registered listener.
WitnessC16 ==
  /\ lastOp.op = "addPredictionListener"
  /\ lastOp.known
  /\ lastOp.arg \in predictionListeners
  /\ predictionListeners = Listeners

\* C17: after clearHistory(chatId) no history is stored for chatId, whether
\* chatId is the active chat or not; the histories of the other chats, the
\* active chat, the active user and the listener set are as before and no
\* listener is invoked.
TheoremC17 ==
  [][lastOp'.op = "clearHistory"
     => /\ lastOp'.arg \notin DOMAIN messageHistory'
        /\ \A c \in ChatIds \ {lastOp'.arg} :
             /\ (c \in DOMAIN messageHistory') = (c \in DOMAIN messageHistory)
             /\ c \in DOMAIN messageHistory
                  => messageHistory'[c] = messageHistory[c]
        /\ UNCHANGED <<currentChatId, currentUserId, predictionListeners>>
        /\ \A l \in Listeners : Len(notified'[l]) = 0]_vars

\* clearHistory removed the stored history of a chat that is not the active
\* one, while the active chat keeps its own and a listener is registered.
WitnessC17 ==
  /\ lastOp.op = "clearHistory"
  /\ lastOp.known
  /\ currentChatId \in ChatIds
  /\ lastOp.arg # currentChatId
  /\ lastOp.arg \notin DOMAIN messageHistory
  /\ currentChatId \in DOMAIN messageHistory
  /\ predictionListeners # {}

\* C18: whenever no chat is active, no history is stored for any chat:
\* setCurrentChat(null) empties the map, and neither updateHistory nor
\* predictMessage nor the arrival of a response stores anything until a chat
\* is made active again.
TheoremC18 ==
  currentChatId = Null => DOMAIN messageHistory = {}

\* No chat is active and the response to a request sent earlier has just
\* been processed: the request had stored a history, nothing is stored now.
WitnessC18 ==
  /\ currentChatId = Null
  /\ lastOp.op = "resolve"
  /\ lastOp.ret # ""
  /\ calls[lastOp.req].outcome = "finished"
  /\ DOMAIN messageHistory = {}

\* C19: the step that processes the outcome of a boundary call, a response
\* or a failure, leaves every stored history, the active chat, the active
\* user and the listener set as they were: a history removed while the
\* request was in flight is not stored again, and the history stored before
\* a call that failed stays.
TheoremC19 ==
  [][lastOp'.op \in {"resolve", "reject"}
     => /\ DOMAIN messageHistory' = DOMAIN messageHistory
        /\ \A c \in DOMAIN messageHistory : messageHistory'[c] = messageHistory[c]
        /\ currentChatId' = currentChatId
        /\ currentUserId' = currentUserId
        /\ predictionListeners' = predictionListeners]_vars

\* The boundary call failed and the 20 messages its invocation had stored,
\* the only history written so far, are still stored for the active chat.
WitnessC19 ==
  /\ lastOp.op = "reject"
  /\ lastOp.arg = currentChatId
  /\ lastOp.arg \in DOMAIN messageHistory
  /\ Len(messageHistory[lastOp.arg]) = MaxHistory
  /\ updates = 0
  /\ boundaryCalls = 1
====
